---- MODULE Spec2Model ----
(***************************************************************************)
(* A model of the required-use constraint tools: the AST of parser.py,     *)
(* the validator (validate_ast.py), the n-ary sorter (sort_nary.py), the   *)
(* flattener (to_flat3.py), the static verifier (verify2.py) and the       *)
(* reference solver (solve.py).                                            *)
(*                                                                         *)
(* Python objects are records.  The identity of a Flag object (the `is`    *)
(* operator of verify2.py) is the field id; equality of Flag objects       *)
(* (Flag.__eq__) compares name and enabled only.                           *)
(***************************************************************************)
EXTENDS Integers, Sequences, FiniteSets, TLC

VARIABLES tokens, ast, immutables, pc, sorted, flats, error,
          solver, inp_flags, out_flags, prev_states,
          normalized, impl_ast, ret_impl

vars == <<tokens, ast, immutables, pc, sorted, flats, error,
          solver, inp_flags, out_flags, prev_states,
          normalized, impl_ast, ret_impl>>

\* the state of the implication variant of print_solutions
implication_variant == <<normalized, impl_ast, ret_impl>>

(***************************************************************************)
(* Bounds of the model.                                                    *)
(***************************************************************************)
NumFlags == 3
MaxNary == 3
MaxTokens == 4
MaxExprs == 3

NameOf == <<"a", "b", "c", "d", "e">>
Names == {NameOf[i] : i \in 1..NumFlags}

(***************************************************************************)
(* parser.py: the AST classes.                                             *)
(***************************************************************************)
Flag(name, enabled, id) ==
    [type |-> "flag", name |-> name, enabled |-> enabled, id |-> id]

IsFlag(x) == x.type = "flag"

\* Flag.__eq__: by name and polarity, never by identity
FlagEq(x, y) == x.name = y.name /\ x.enabled = y.enabled

\* Flag.negated: a new object (a new identity) of the opposite polarity
negated(x) == Flag(x.name, ~x.enabled, 0 - x.id)

Implication(condition, constraint) ==
    [type |-> "impl", condition |-> condition, constraint |-> constraint]

NaryOperator(op, constraint) ==
    [type |-> "nary", op |-> op, constraint |-> constraint]

IsNary(x) == x.type = "nary"

RECURSIVE flatten_operator(_, _)
flatten_operator(l, op) ==
    IF l = <<>> THEN <<>>
    ELSE LET c == Head(l) IN
         (IF IsNary(c) /\ c.op = op
            THEN flatten_operator(c.constraint, op)
            ELSE <<c>>) \o flatten_operator(Tail(l), op)

AnyOfOperator(constraint) == NaryOperator("||", flatten_operator(constraint, "||"))
ExactlyOneOfOperator(constraint) == NaryOperator("^^", constraint)
AtMostOneOfOperator(constraint) == NaryOperator("??", constraint)
AllOfOperator(constraint) == NaryOperator("&&", flatten_operator(constraint, "&&"))


(***************************************************************************)
(* parser.py: parse_tokens.  A token is the sequence of its characters.    *)
(***************************************************************************)
LParen == <<"(">>
RParen == <<")">>
AnyOfToken == <<"|", "|">>
AtMostOneOfToken == <<"?", "?">>
ExactlyOneOfToken == <<"^", "^">>

\* the characters of the model that [A-Za-z0-9] matches
Alnum == {"a", "b"}

\* flag_re = ^[A-Za-z0-9][A-Za-z0-9+_@-]*$
flag_re(name) ==
    /\ name # <<>>
    /\ name[1] \in Alnum
    /\ \A i \in 2..Len(name) : name[i] \in Alnum \cup {"+", "_", "@", "-"}

startswith(t, c) == t # <<>> /\ t[1] = c
endswith(t, c) == t # <<>> /\ t[Len(t)] = c

\* the string of a sequence of characters
RECURSIVE Join(_)
Join(t) == IF t = <<>> THEN "" ELSE Head(t) \o Join(Tail(t))

\* a Flag.__init__ that takes every name
NewFlag_Unchecked(k, id) ==
    LET name == IF startswith(k, "!") THEN Tail(k) ELSE k IN
    [err |-> "none", val |-> Flag(Join(name), ~startswith(k, "!"), id)]

\* Flag(k[1:], False) if k.startswith('!') else Flag(k): the object numbered
\* id, or the ValueError of Flag.__init__
NewFlag(k, id) ==
    LET name == IF startswith(k, "!") THEN Tail(k) ELSE k IN
    IF flag_re(name)
      THEN [err |-> "none", val |-> Flag(Join(name), ~startswith(k, "!"), id)]
      ELSE [err |-> "ValueError", val |-> <<>>]

\* [val |-> the expressions yielded, rest |-> the tokens left in l,
\*  err |-> the exception raised or "none", next |-> the number of the next
\*  Flag object]
RECURSIVE parse_tokens(_, _, _)
parse_tokens(l, nested, n) ==
    LET Raised == [val |-> <<>>, rest |-> l, err |-> "ValueError", next |-> n]
        t == Head(l)
        k == SubSeq(t, 1, Len(t) - 1)
        is_operator == t \in {AnyOfToken, AtMostOneOfToken, ExactlyOneOfToken, LParen}
        kf == NewFlag(k, n)
        body == parse_tokens(IF t = LParen THEN Tail(l) ELSE Tail(Tail(l)), TRUE,
                             IF is_operator THEN n ELSE n + 1)
        expr == IF t = AnyOfToken THEN AnyOfOperator(body.val)
                ELSE IF t = AtMostOneOfToken THEN AtMostOneOfOperator(body.val)
                ELSE IF t = ExactlyOneOfToken THEN ExactlyOneOfOperator(body.val)
                ELSE IF t = LParen THEN AllOfOperator(body.val)
                ELSE Implication(<<kf.val>>, body.val)
        after == parse_tokens(body.rest, nested, body.next)
        flag == NewFlag(t, n)
        more == parse_tokens(Tail(l), nested, n + 1)
    IN  IF l = <<>>
          THEN [val |-> <<>>, rest |-> l, next |-> n,
                err |-> IF nested THEN "ValueError" ELSE "none"]
        ELSE IF is_operator \/ endswith(t, "?")
          THEN IF LParen \notin {l[i] : i \in 1..(IF Len(l) < 2 THEN Len(l) ELSE 2)}
                 THEN Raised
               ELSE IF ~is_operator /\ kf.err # "none" THEN Raised
               ELSE IF body.err # "none" THEN body
               ELSE [after EXCEPT !.val = <<expr>> \o @]
        ELSE IF t = RParen
          THEN IF ~nested THEN Raised
               ELSE [val |-> <<>>, rest |-> Tail(l), err |-> "none", next |-> n]
        ELSE IF flag.err # "none" THEN Raised
        ELSE [more EXCEPT !.val = <<flag.val>> \o @]

\* the tokens of the model
Token ==
    {LParen, RParen, AnyOfToken, AtMostOneOfToken, ExactlyOneOfToken,
     <<"a", "?">>, <<"!", "b", "?">>, <<"?">>,
     <<"a">>, <<"!", "b">>, <<"!", "!", "a">>, <<"a", "+">>, <<"+", "a">>}

\* s.split() of the strings of the model
TokenLists == UNION {[1..n -> Token] : n \in 0..MaxTokens}

(***************************************************************************)
(* The constraints the model starts from.  A template is an AST whose Flag *)
(* objects are numbered in token order (parse_tokens creates one object    *)
(* per literal token); Fill gives each of them a name and a polarity.      *)
(***************************************************************************)
T(i) == Flag("?", TRUE, i)

RECURSIVE FillSeq(_, _)
Fill(x, ls) ==
    IF IsFlag(x) THEN Flag(NameOf[ls[x.id][1]], ls[x.id][2], x.id)
    ELSE IF x.type = "impl"
      THEN Implication(FillSeq(x.condition, ls), FillSeq(x.constraint, ls))
      ELSE NaryOperator(x.op, FillSeq(x.constraint, ls))

FillSeq(l, ls) == [i \in 1..Len(l) |-> Fill(l[i], ls)]

NaryOps == {"||", "??", "^^"}

\* op ( T(from) ... T(from + n - 1) )
Group(op, from, n) == NaryOperator(op, [i \in 1..n |-> T(from + i - 1)])

Templates1 ==
    {<<T(1)>>} \cup {<<Group(op, 1, 1)>> : op \in NaryOps}

Templates2 ==
    {<<T(1), T(2)>>, <<Implication(<<T(1)>>, <<T(2)>>)>>}
    \cup {<<Group(op, 1, 2)>> : op \in NaryOps}

Templates3 ==
    {<<Implication(<<T(1)>>, <<T(2), T(3)>>)>>,
     <<Implication(<<T(1)>>, <<T(2)>>), T(3)>>,
     <<T(1), Implication(<<T(2)>>, <<T(3)>>)>>,
     <<Implication(<<T(1)>>, <<Implication(<<T(2)>>, <<T(3)>>)>>)>>}
    \cup {<<Implication(<<T(1)>>, <<Group(op, 2, 2)>>)>> : op \in NaryOps}
    \cup {<<Group(op, 1, 2), T(3)>> : op \in NaryOps}
    \cup {<<T(1), Group(op, 2, 2)>> : op \in NaryOps}

Templates4 ==
    {<<Implication(<<T(1)>>, <<T(2)>>), Implication(<<T(3)>>, <<T(4)>>)>>,
     <<Implication(<<T(1)>>, <<T(2), T(3), T(4)>>)>>,
     <<Implication(<<T(1)>>, <<Implication(<<T(2)>>, <<T(3)>>), T(4)>>)>>}
    \cup {<<Group(op, 1, 2), Implication(<<T(3)>>, <<T(4)>>)>> : op \in NaryOps}
    \cup {<<Implication(<<T(1)>>, <<T(2)>>), Group(op, 3, 2)>> : op \in NaryOps}
    \cup {<<Group(op, 1, 2), T(3), T(4)>> : op \in NaryOps}

\* op ( x1 ... xn ) for every 3 <= n <= MaxNary
TemplatesN(n) == {<<Group(op, 1, n)>> : op \in NaryOps}

\* groups the validator refuses, and the empty groups
TemplatesBad ==
    {<<NaryOperator("&&", <<T(1), T(2)>>)>>,
     <<NaryOperator("||", <<Implication(<<T(1)>>, <<T(2)>>)>>)>>,
     <<NaryOperator("??", <<NaryOperator("||", <<T(1), T(2)>>)>>)>>}

Templates0 == {<<NaryOperator(op, <<>>)>> : op \in NaryOps}

\* a constraint of the self-tests of verify2.py that is longer than the
\* templates:  a? ( !b c ) b? ( !c )
SelfTestConstraints ==
    {<<Implication(<<Flag("a", TRUE, 1)>>,
                   <<Flag("b", FALSE, 2), Flag("c", TRUE, 3)>>),
       Implication(<<Flag("b", TRUE, 4)>>, <<Flag("c", FALSE, 5)>>)>>}

\* a constraint on which the solver runs for long: a binary counter.  Bit i
\* is toggled, through the flag t, when the bits below it are all set:
\*   b0? ( ... bi-1? ( bi? ( t ) !bi? ( !t ) t? ( !bi ) !t? ( bi ) ) ... )
\* for i from the highest bit down to 0.
BitName == <<"b0", "b1", "b2", "b3", "b4", "b5", "b6", "b7", "b8", "b9">>

\* the four implications that toggle bit i; n is the first object number
Toggle(i, n) ==
    <<Implication(<<Flag(BitName[i], TRUE, n)>>, <<Flag("t", TRUE, n + 1)>>),
      Implication(<<Flag(BitName[i], FALSE, n + 2)>>, <<Flag("t", FALSE, n + 3)>>),
      Implication(<<Flag("t", TRUE, n + 4)>>, <<Flag(BitName[i], FALSE, n + 5)>>),
      Implication(<<Flag("t", FALSE, n + 6)>>, <<Flag(BitName[i], TRUE, n + 7)>>)>>

RECURSIVE Guarded(_, _, _)
Guarded(i, j, n) ==
    IF j = i THEN Toggle(i, n)
    ELSE <<Implication(<<Flag(BitName[j], TRUE, n)>>, Guarded(i, j + 1, n + 1))>>

RECURSIVE Counter(_)
Counter(i) ==
    IF i = 0 THEN <<>>
    ELSE Guarded(i, 1, Len(BitName) * 2 * i) \o Counter(i - 1)

LongConstraints == {Counter(Len(BitName))}

\* the names of a filling appear in alphabetical order of first occurrence
Canonical(ls) ==
    \A i \in DOMAIN ls :
        \/ ls[i][1] = 1
        \/ \E j \in 1..(i - 1) : ls[j][1] >= ls[i][1] - 1

Fillings(k) ==
    {ls \in [1..k -> (1..NumFlags) \X BOOLEAN] : Canonical(ls)}

Filled(templates, k) == {FillSeq(t, ls) : t \in templates, ls \in Fillings(k)}

Constraints ==
    Templates0
    \cup Filled(Templates1, 1) \cup Filled(Templates2 \cup TemplatesBad, 2)
    \cup Filled(Templates3, 3) \cup Filled(Templates4, 4)
    \cup UNION {Filled(TemplatesN(n), n) : n \in 3..MaxNary}
    \cup SelfTestConstraints \cup LongConstraints

(***************************************************************************)
(* solve.py: parse_immutables gives a map from some flag names to their    *)
(* fixed value; immutables.get(name, default).                             *)
(***************************************************************************)
Get(d, name, default) == IF name \in DOMAIN d THEN d[name] ELSE default

RECURSIVE get_all_flags(_)
get_all_flags(l) ==
    IF l = <<>> THEN <<>>
    ELSE LET expr == Head(l) IN
         (IF IsFlag(expr) THEN <<expr>>
          ELSE (IF expr.type = "impl" THEN get_all_flags(expr.condition) ELSE <<>>)
               \o get_all_flags(expr.constraint))
         \o get_all_flags(Tail(l))

all_flags(l) == {f.name : f \in {get_all_flags(l)[i] : i \in 1..Len(get_all_flags(l))}}

\* a constraint over more flags than the fillings have names
IsLong(l) == Cardinality(all_flags(l)) > Len(NameOf)

(***************************************************************************)
(* validate_ast.py.  The result is the list of the expressions yielded and *)
(* the exception that ended the generator ("none": it ran to its end).     *)
(***************************************************************************)
\* a validator that takes whatever is in an n-ary group
validate_nary_children_Any(cs) == "none"

validate_nary_children(cs) ==
    IF \A i \in 1..Len(cs) : IsFlag(cs[i]) THEN "none"
    ELSE "ValueError"

RECURSIVE validate_ast_passthrough(_)
validate_expr(expr) ==
    IF IsFlag(expr) THEN "none"
    ELSE IF expr.type = "impl"
      THEN IF Len(expr.condition) # 1 \/ ~IsFlag(expr.condition[1])
             THEN "AssertionError"
             ELSE validate_ast_passthrough(expr.constraint).err
    ELSE IF expr.op = "&&" THEN "ValueError"
    ELSE validate_nary_children(expr.constraint)

validate_ast_passthrough(l) ==
    IF l = <<>> THEN [yielded |-> <<>>, err |-> "none"]
    ELSE LET e == validate_expr(Head(l)) IN
         IF e # "none" THEN [yielded |-> <<>>, err |-> e]
         ELSE LET r == validate_ast_passthrough(Tail(l)) IN
              [yielded |-> <<Head(l)>> \o r.yielded, err |-> r.err]

(***************************************************************************)
(* sort_nary.py.  A key of 3 stands for the AttributeError that key.name   *)
(* raises on an Implication.                                               *)
(***************************************************************************)
RECURSIVE immutability_sort(_, _)
RECURSIVE first_key(_, _)
first_key(cs, imm) ==
    IF cs = <<>> THEN 1
    ELSE IF immutability_sort(Head(cs), imm) # 1
      THEN immutability_sort(Head(cs), imm)
      ELSE first_key(Tail(cs), imm)

immutability_sort(key, imm) ==
    IF IsNary(key) THEN first_key(key.constraint, imm)
    ELSE IF ~IsFlag(key) THEN 3
    ELSE IF key.name \notin DOMAIN imm THEN 1
    ELSE IF imm[key.name] THEN 0
    ELSE 2

\* list.sort(key=...): stable
sort_by_key(cs, imm) ==
    SelectSeq(cs, LAMBDA x : immutability_sort(x, imm) = 0)
    \o SelectSeq(cs, LAMBDA x : immutability_sort(x, imm) = 1)
    \o SelectSeq(cs, LAMBDA x : immutability_sort(x, imm) = 2)

RECURSIVE sort_nary(_, _)
sort_expr(expr, imm) ==
    IF IsFlag(expr) THEN expr
    ELSE IF expr.type = "impl"
      THEN Implication(expr.condition, sort_nary(expr.constraint, imm))
    ELSE IF expr.op = "&&" THEN expr
    ELSE IF expr.op = "||"
      THEN AnyOfOperator(sort_by_key(sort_nary(expr.constraint, imm), imm))
      ELSE NaryOperator(expr.op, sort_by_key(sort_nary(expr.constraint, imm), imm))

sort_nary(l, imm) == [i \in 1..Len(l) |-> sort_expr(l[i], imm)]

(***************************************************************************)
(* to_flat3.py.  A path is [c |-> conditions, e |-> effect]; the effect is *)
(* what the generator yields in second place: a Flag, or a Python list.    *)
(***************************************************************************)
Path(c, e) == [c |-> c, e |-> e]
List(items) == [type |-> "list", items |-> items]
IsList(x) == x.type = "list"

Negs(cs) == [i \in 1..Len(cs) |-> negated(cs[i])]

FlatCat(r1, r2) ==
    IF r1.err # "none" THEN r1
    ELSE [paths |-> r1.paths \o r2.paths, err |-> r2.err]

\* a lowering of || that forgets to negate the other alternatives
flatten_any_of_NoNegation(expr, conditions) ==
    IF expr.constraint = <<>> THEN [paths |-> <<>>, err |-> "IndexError"]
    ELSE [paths |-> <<Path(conditions \o Tail(expr.constraint),
                           expr.constraint[1])>>,
          err |-> "none"]

flatten_any_of(expr, conditions) ==
    IF expr.constraint = <<>> THEN [paths |-> <<>>, err |-> "IndexError"]
    ELSE [paths |-> <<Path(conditions \o Negs(Tail(expr.constraint)),
                           expr.constraint[1])>>,
          err |-> "none"]

flatten_at_most_one_of(expr, conditions) ==
    \* range(0, len(expr.constraint)-1) is empty for fewer than two members
    [paths |-> IF Len(expr.constraint) < 2 THEN <<>>
               ELSE [i \in 1..(Len(expr.constraint) - 1) |->
                        Path(conditions \o <<expr.constraint[i]>>,
                             List(Negs(SubSeq(expr.constraint, i + 1,
                                              Len(expr.constraint)))))],
     err |-> "none"]

RECURSIVE flatten3(_, _)
flatten3_expr(expr, conditions) ==
    IF IsFlag(expr) THEN [paths |-> <<Path(conditions, expr)>>, err |-> "none"]
    ELSE IF expr.type = "impl"
      THEN flatten3(expr.constraint, conditions \o expr.condition)
    ELSE IF expr.op = "||" THEN flatten_any_of(expr, conditions)
    ELSE IF expr.op = "??" THEN flatten_at_most_one_of(expr, conditions)
    ELSE IF expr.op = "^^"
      THEN FlatCat(flatten3(<<AnyOfOperator(expr.constraint)>>, conditions),
                   flatten3(<<AtMostOneOfOperator(expr.constraint)>>, conditions))
    ELSE [paths |-> <<>>, err |-> "ValueError"]

flatten3(l, conditions) ==
    IF l = <<>> THEN [paths |-> <<>>, err |-> "none"]
    ELSE FlatCat(flatten3_expr(Head(l), conditions),
                 flatten3(Tail(l), conditions))

(***************************************************************************)
(* verify2.py.  Every check returns "ok" or the name of the exception it   *)
(* raises.  An effect that is a list has no attribute name, enabled or     *)
(* negated, and Flag.__eq__ reads other.name: AttributeError.              *)
(***************************************************************************)
\* x in c, for a Flag x: Flag.__eq__ on every member in turn
InList(x, c) == \E i \in 1..Len(c) : FlagEq(c[i], x)

\* a check that takes a repeated flag for a conflict, whatever its polarity
self_conflicting_ByName(p) ==
    \E i, j \in 1..Len(p.c) : i # j /\ p.c[i].name = p.c[j].name

self_conflicting(p) == \E i \in 1..Len(p.c) : InList(negated(p.c[i]), p.c)

verify_self_conflicting(fl) ==
    IF \E k \in 1..Len(fl) : self_conflicting(fl[k])
      THEN "SelfConflictingVerifyError"
      ELSE "ok"

\* the for ... else of verify_immutability: no condition breaks the loop
can_apply(p, imm) ==
    \A i \in 1..Len(p.c) : Get(imm, p.c[i].name, p.c[i].enabled) = p.c[i].enabled

RECURSIVE verify_immutability(_, _)
verify_immutability(fl, imm) ==
    IF fl = <<>> THEN "ok"
    ELSE LET p == Head(fl) IN
         IF ~can_apply(p, imm) THEN verify_immutability(Tail(fl), imm)
         ELSE IF IsList(p.e) THEN "AttributeError"
         ELSE IF Get(imm, p.e.name, p.e.enabled) # p.e.enabled
           THEN "ImmutabilityVerifyError"
           ELSE verify_immutability(Tail(fl), imm)

RECURSIVE split_common_prefix_ByValue(_, _)
RECURSIVE split_common_prefix(_, _)
\* a split that takes value-equal literals of different nodes for shared
split_common_prefix_ByValue(c1, c2) ==
    IF c1 # <<>> /\ c2 # <<>> /\ FlagEq(Head(c1), Head(c2))
      THEN LET r == split_common_prefix_ByValue(Tail(c1), Tail(c2)) IN
           [pfx |-> <<Head(c1)>> \o r.pfx, c1 |-> r.c1, c2 |-> r.c2]
      ELSE [pfx |-> <<>>, c1 |-> c1, c2 |-> c2]

split_common_prefix(c1, c2) ==
    IF c1 # <<>> /\ c2 # <<>> /\ Head(c1).id = Head(c2).id
      THEN LET r == split_common_prefix(Tail(c1), Tail(c2)) IN
           [pfx |-> <<Head(c1)>> \o r.pfx, c1 |-> r.c1, c2 |-> r.c2]
      ELSE [pfx |-> <<>>, c1 |-> c1, c2 |-> c2]

\* a comparison that lets every pair of conditions through
conditions_can_coexist_Unchecked(c1, c2) == TRUE

\* a comparison that does not set the shared prefix aside
conditions_can_coexist_WholeLists(c1, c2) ==
    ~\E i \in 1..Len(c1) : InList(negated(c1[i]), c2)

conditions_can_coexist(c1, c2) ==
    LET s == split_common_prefix(c1, c2) IN
    ~\E i \in 1..Len(s.c1) : InList(negated(s.c1[i]), s.c2)

test_condition(c, flag_dict, unspecified_val) ==
    \A i \in 1..Len(c) :
        IF c[i].name \notin DOMAIN flag_dict THEN unspecified_val
        ELSE c[i].enabled = flag_dict[c[i].name]

\* set(c1) | set(c2): Flag objects hash and compare by name and polarity
Lit(f) == [name |-> f.name, enabled |-> f.enabled]
LitSet(c) == {Lit(c[i]) : i \in 1..Len(c)}

\* the while loop of condition_can_occur that strips the cached prefix
RECURSIVE strip_cached(_, _, _)
strip_cached(c, prev_cond, success_cache) ==
    IF c # <<>> /\ prev_cond # <<>>
       /\ Head(c).id = Head(prev_cond).id /\ Head(c).id \in success_cache
      THEN strip_cached(Tail(c), Tail(prev_cond), success_cache)
      ELSE c

\* the for loop of condition_can_occur over prev_flats
RECURSIVE simulate(_, _, _, _)
simulate(prev_flats, flag_states, success_cache, prev_cond) ==
    IF prev_flats = <<>> THEN [flag_states |-> flag_states, err |-> "none"]
    ELSE LET p == Head(prev_flats)
             c == strip_cached(p.c, prev_cond, success_cache)
         IN  IF test_condition(c, flag_states, FALSE)
               THEN IF IsList(p.e)
                      THEN [flag_states |-> flag_states, err |-> "AttributeError"]
                      ELSE simulate(Tail(prev_flats),
                                    (p.e.name :> p.e.enabled) @@ flag_states,
                                    success_cache \cup {c[i].id : i \in 1..Len(c)},
                                    p.c)
               ELSE simulate(Tail(prev_flats), flag_states, success_cache, p.c)

\* [val |-> the value returned, err |-> the exception raised or "none"]
condition_can_occur(final_condition, prev_flats, flags) ==
    IF \E f, g \in flags : f.name = g.name /\ f.enabled # g.enabled
      THEN [val |-> FALSE, err |-> "AssertionError"]
      ELSE LET init == [n \in {f.name : f \in flags} |->
                           [name |-> n, enabled |-> TRUE] \in flags]
               r == simulate(prev_flats, init, {}, <<>>)
           IN  [val |-> r.err = "none"
                        /\ test_condition(final_condition, r.flag_states, TRUE),
                err |-> r.err]

\* the body of the inner loop of verify_conflicts: "none" to go on
conflict_pair(fl, i, j) ==
    LET c1 == fl[i].c
        e1 == fl[i].e
        c2 == fl[j].c
        e2 == fl[j].e
    IN  IF IsList(e2) \/ IsList(e1) THEN "AttributeError"
        ELSE IF ~(FlagEq(e1, negated(e2)) /\ conditions_can_coexist(c1, c2))
          THEN "none"
        ELSE LET common_conds == LitSet(c1) \cup LitSet(c2)
                 o1 == condition_can_occur(c1, SubSeq(fl, 1, i - 1), common_conds)
                 o2 == condition_can_occur(c2, SubSeq(fl, 1, j - 1), common_conds)
             IN  IF o1.err # "none" THEN o1.err
                 ELSE IF ~o1.val THEN "none"
                 ELSE IF o2.err # "none" THEN o2.err
                 ELSE IF o2.val THEN "ConflictVerifyError"
                 ELSE "none"

\* a circular exception that looks at the flag of the earlier effect only
back_alteration_pair_ByName(fl, i, j) ==
    LET s == split_common_prefix(fl[i].c, fl[j].c)
        cis == s.c1
        cjs == s.c2
        ei == fl[i].e
        ej == fl[j].e
    IN  IF cis = <<>> THEN "none"
        ELSE IF IsList(ej) THEN "AttributeError"
        ELSE IF ~(InList(ej, cis) /\ conditions_can_coexist(cis, cjs)) THEN "none"
        ELSE IF cjs = <<>> THEN "BackAlterationVerifyError"
        ELSE IF IsList(ei) THEN "AttributeError"
        ELSE IF \E k \in 1..Len(cjs) : cjs[k].name = ei.name THEN "none"
        ELSE "BackAlterationVerifyError"

\* the body of the inner loop of verify_back_alteration: "none" to go on
back_alteration_pair(fl, i, j) ==
    LET s == split_common_prefix(fl[i].c, fl[j].c)
        cis == s.c1
        cjs == s.c2
        ei == fl[i].e
        ej == fl[j].e
    IN  IF cis = <<>> THEN "none"
        ELSE IF IsList(ej) THEN "AttributeError"
        ELSE IF ~(InList(ej, cis) /\ conditions_can_coexist(cis, cjs)) THEN "none"
        ELSE IF cjs = <<>> THEN "BackAlterationVerifyError"
        ELSE IF IsList(ei) THEN "AttributeError"
        ELSE IF InList(ei, cjs) THEN "none"
        ELSE "BackAlterationVerifyError"

\* for i in range(len(flats)): for j in range(i+1, len(flats)): the first
\* pair whose body raises ends the scan
RECURSIVE conflict_pairs(_, _, _)
conflict_pairs(fl, i, j) ==
    IF i > Len(fl) THEN "ok"
    ELSE IF j > Len(fl) THEN conflict_pairs(fl, i + 1, i + 2)
    ELSE IF conflict_pair(fl, i, j) # "none" THEN conflict_pair(fl, i, j)
    ELSE conflict_pairs(fl, i, j + 1)

verify_conflicts(fl) == conflict_pairs(fl, 1, 2)

RECURSIVE back_alteration_pairs(_, _, _)
back_alteration_pairs(fl, i, j) ==
    IF i > Len(fl) THEN "ok"
    ELSE IF j > Len(fl) THEN back_alteration_pairs(fl, i + 1, i + 2)
    ELSE IF back_alteration_pair(fl, i, j) # "none"
      THEN back_alteration_pair(fl, i, j)
    ELSE back_alteration_pairs(fl, i, j + 1)

verify_back_alteration(fl) == back_alteration_pairs(fl, 1, 2)

(***************************************************************************)
(* solve.py: the reference solver.  flags is a function from the names of  *)
(* the constraint to their values.                                         *)
(***************************************************************************)
\* l[0:1]
Slice01(l) == IF l = <<>> THEN <<>> ELSE <<l[1]>>

Count(bs) == Cardinality({i \in 1..Len(bs) : bs[i]})

RECURSIVE validate_constraint(_, _)
validate_expr_in(flags, expr) ==
    IF IsFlag(expr) THEN flags[expr.name] = expr.enabled
    ELSE IF expr.type = "impl"
      THEN validate_constraint(flags, expr.condition)
             => validate_constraint(flags, expr.constraint)
    ELSE LET vs == [i \in 1..Len(expr.constraint) |->
                       validate_constraint(flags, <<expr.constraint[i]>>)]
         IN  IF expr.op = "||" THEN Count(vs) >= 1
             ELSE IF expr.op = "^^" THEN Count(vs) = 1
             ELSE IF expr.op = "??" THEN Count(vs) <= 1
             ELSE Count(vs) = Len(vs)

validate_constraint(flags, constraint) ==
    \A i \in 1..Len(constraint) : validate_expr_in(flags, constraint[i])

\* [flags |-> the map after the call, err |-> "none" or "ImmutabilityError"]
RECURSIVE apply_solving(_, _, _, _)
RECURSIVE apply_at_most_one(_, _, _, _, _)

\* an assignment that does not look at the immutables
apply_flag_Unchecked(flags, expr, imm, negate) ==
    [flags |-> [flags EXCEPT ![expr.name] = (expr.enabled # negate)],
     err |-> "none"]

\* an assignment that refuses every immutable flag, whatever value it is given
apply_flag_AnyImmutable(flags, expr, imm, negate) ==
    IF expr.name \in DOMAIN imm
      THEN [flags |-> flags, err |-> "ImmutabilityError"]
      ELSE [flags |-> [flags EXCEPT ![expr.name] = (expr.enabled # negate)],
            err |-> "none"]

apply_flag(flags, expr, imm, negate) ==
    LET want == (expr.enabled # negate) IN
    IF Get(imm, expr.name, want) # want
      THEN [flags |-> flags, err |-> "ImmutabilityError"]
      ELSE [flags |-> [flags EXCEPT ![expr.name] = want], err |-> "none"]

apply_expr(flags, expr, imm, negate) ==
    IF IsFlag(expr) THEN apply_flag(flags, expr, imm, negate)
    ELSE IF expr.type = "impl"
      THEN IF validate_constraint(flags, expr.condition)
             THEN apply_solving(flags, expr.constraint, imm, negate)
             ELSE [flags |-> flags, err |-> "none"]
    ELSE IF expr.op = "||"
      THEN IF ~validate_constraint(flags, <<expr>>)
             THEN apply_solving(flags, Slice01(expr.constraint), imm, negate)
             ELSE [flags |-> flags, err |-> "none"]
    ELSE IF expr.op = "^^"
      THEN LET r == apply_solving(flags, <<AnyOfOperator(expr.constraint)>>,
                                  imm, negate)
           IN  IF r.err # "none" THEN r
               ELSE apply_solving(r.flags,
                                  <<AtMostOneOfOperator(expr.constraint)>>,
                                  imm, negate)
    ELSE IF expr.op = "??"
      THEN IF ~validate_constraint(flags, <<expr>>)
             THEN apply_at_most_one(flags, expr.constraint, imm, negate, FALSE)
             ELSE [flags |-> flags, err |-> "none"]
    ELSE IF ~negate THEN apply_solving(flags, expr.constraint, imm, negate)
    ELSE apply_solving(flags, Slice01(expr.constraint), imm, negate)

\* the loop over the members of a ?? group
apply_at_most_one(flags, xs, imm, negate, past_first) ==
    IF xs = <<>> THEN [flags |-> flags, err |-> "none"]
    ELSE IF ~validate_constraint(flags, <<Head(xs)>>)
      THEN apply_at_most_one(flags, Tail(xs), imm, negate, past_first)
    ELSE IF ~past_first
      THEN apply_at_most_one(flags, Tail(xs), imm, negate, TRUE)
    ELSE LET r == apply_solving(flags, <<Head(xs)>>, imm, ~negate) IN
         IF r.err # "none" THEN r
         ELSE apply_at_most_one(r.flags, Tail(xs), imm, negate, TRUE)

apply_solving(flags, constraint, imm, negate) ==
    IF constraint = <<>> THEN [flags |-> flags, err |-> "none"]
    ELSE LET r == apply_expr(flags, Head(constraint), imm, negate) IN
         IF r.err # "none" THEN r
         ELSE apply_solving(r.flags, Tail(constraint), imm, negate)

\* print_solutions: the inputs that agree with the immutables
\* (of a long constraint, the first input only: every flag false)
Inputs(l, imm) ==
    IF IsLong(l) THEN {[n \in all_flags(l) |-> FALSE]}
    ELSE {f \in [all_flags(l) -> BOOLEAN] :
             \A k \in DOMAIN imm : k \in DOMAIN f => f[k] = imm[k]}

(***************************************************************************)
(* replace_nary.py: the normalizer.  An expression that a function refuses *)
(* (ValueError) is the node ErrorNode in its result; the truth values that *)
(* simplify_with_immutables returns are the nodes Bool(TRUE), Bool(FALSE). *)
(***************************************************************************)
ErrorNode == [type |-> "error"]

Bool(v) == [type |-> "bool", val |-> v]

IsAllOf(x) == x.type = "nary" /\ x.op = "&&"

IsAnyOf(x) == x.type = "nary" /\ x.op = "||"

RECURSIVE HasError(_)
HasError(x) ==
    IF x.type = "error" THEN TRUE
    ELSE IF x.type = "impl"
      THEN \E i \in 1..Len(x.constraint) : HasError(x.constraint[i])
    ELSE IF x.type = "nary"
      THEN \E i \in 1..Len(x.constraint) : HasError(x.constraint[i])
    ELSE FALSE

RECURSIVE negate(_)
negate(expr) ==
    IF IsFlag(expr) THEN negated(expr)
    ELSE IF IsAllOf(expr)
      THEN AnyOfOperator([i \in 1..Len(expr.constraint) |-> negate(expr.constraint[i])])
    ELSE IF IsAnyOf(expr)
      THEN AllOfOperator([i \in 1..Len(expr.constraint) |-> negate(expr.constraint[i])])
    ELSE ErrorNode

RECURSIVE merge_and_expand_implications(_)
RECURSIVE merge_and_expand_body(_, _)

\* the loop over expr.constraint of merge_and_expand_implications
merge_and_expand_body(condition, cs) ==
    IF cs = <<>> THEN <<>>
    ELSE LET i == Head(cs)
             js == merge_and_expand_implications(<<i>>)
         IN  (IF i.type = "impl"
                THEN [k \in 1..Len(js) |->
                         Implication(condition \o js[k].condition, js[k].constraint)]
              ELSE IF IsAllOf(i)
                THEN [k \in 1..Len(i.constraint) |->
                         Implication(condition, <<i.constraint[k]>>)]
              ELSE <<Implication(condition, <<i>>)>>)
             \o merge_and_expand_body(condition, Tail(cs))

merge_and_expand_implications(l) ==
    IF l = <<>> THEN <<>>
    ELSE (IF Head(l).type = "impl"
            THEN merge_and_expand_body(Head(l).condition, Head(l).constraint)
            ELSE <<Head(l)>>)
         \o merge_and_expand_implications(Tail(l))

RECURSIVE really_replace_nested_implications(_)
really_replace_nested_implications(l) ==
    [k \in 1..Len(l) |->
        IF l[k].type = "impl"
          THEN AllOfOperator(l[k].condition
                             \o really_replace_nested_implications(l[k].constraint))
        ELSE IF l[k].type = "nary"
          THEN [l[k] EXCEPT !.constraint = really_replace_nested_implications(@)]
        ELSE l[k]]

replace_nested_implications(l) ==
    [k \in 1..Len(l) |->
        IF l[k].type \in {"impl", "nary"}
          THEN [l[k] EXCEPT !.constraint = really_replace_nested_implications(@)]
          ELSE l[k]]

\* the list l as replace_nested_implications leaves it: the generator
\* rebinds the constraint of the objects of l and yields these same objects
after_replace_nested_implications(l) == replace_nested_implications(l)

RECURSIVE replace_nary(_)

\* ?? ( ... ) of the negated members: one || ( && ( the later ones ) x ) each
replace_at_most_one(constraint) ==
    AllOfOperator([k \in 1..Len(constraint) |->
        AnyOfOperator(<<AllOfOperator(SubSeq(constraint, k + 1, Len(constraint))),
                        constraint[k]>>)])

replace_nary_expr(expr) ==
    IF IsFlag(expr) THEN expr
    ELSE IF expr.type = "impl"
      THEN Implication(expr.condition, replace_nary(expr.constraint))
    ELSE IF expr.type # "nary" THEN ErrorNode
    ELSE LET constraint == replace_nary(expr.constraint) IN
         IF expr.op = "??"
           THEN replace_at_most_one([k \in 1..Len(constraint) |-> negate(constraint[k])])
         ELSE IF expr.op = "^^"
           THEN AllOfOperator(<<AnyOfOperator(constraint)>>
                    \o replace_nary(<<AtMostOneOfOperator(constraint)>>))
         ELSE IF expr.op = "&&" THEN AllOfOperator(constraint)
         ELSE AnyOfOperator(constraint)

replace_nary(l) == [k \in 1..Len(l) |-> replace_nary_expr(l[k])]

RECURSIVE simplify_with_immutables(_, _)

\* the members that are left of a list: those that are not Bool(skip)
RECURSIVE simplify_members(_, _, _)
simplify_members(l, imm, skip) ==
    IF l = <<>> THEN <<>>
    ELSE LET m == simplify_with_immutables(Head(l), imm) IN
         (IF m = Bool(skip) THEN <<>> ELSE <<m>>)
         \o simplify_members(Tail(l), imm, skip)

\* a member is the truth value that decides the whole list
simplify_decided(l, imm, by) ==
    \E i \in 1..Len(l) : simplify_with_immutables(l[i], imm) = Bool(by)

simplify_with_immutables(x, imm) ==
    IF IsFlag(x)
      THEN IF x.name \in DOMAIN imm
             THEN Bool(IF x.enabled THEN imm[x.name] ELSE ~imm[x.name])
             ELSE x
    ELSE IF x.type = "impl"
      THEN LET nc == SelectSeq(x.condition, LAMBDA c : c.name \notin DOMAIN imm)
               ncons == simplify_members(x.constraint, imm, TRUE)
           IN  IF \E i \in 1..Len(x.condition) :
                     x.condition[i].name \in DOMAIN imm /\ ~imm[x.condition[i].name]
                 THEN Bool(TRUE)
               ELSE IF nc = <<>>
                 THEN simplify_with_immutables(AllOfOperator(x.constraint), imm)
               ELSE IF simplify_decided(x.constraint, imm, FALSE) THEN Bool(FALSE)
               ELSE IF ncons = <<>> THEN Bool(TRUE)
               ELSE Implication(nc, ncons)
    ELSE IF IsAllOf(x)
      THEN LET r == simplify_members(x.constraint, imm, TRUE) IN
           IF simplify_decided(x.constraint, imm, FALSE) THEN Bool(FALSE)
           ELSE IF r = <<>> THEN Bool(TRUE)
           ELSE IF Len(r) = 1 THEN r[1]
           ELSE AllOfOperator(r)
    ELSE IF IsAnyOf(x)
      THEN LET r == simplify_members(x.constraint, imm, FALSE) IN
           IF simplify_decided(x.constraint, imm, TRUE) THEN Bool(TRUE)
           ELSE IF r = <<>> THEN Bool(FALSE)
           ELSE IF Len(r) = 1 THEN r[1]
           ELSE AnyOfOperator(r)
    ELSE ErrorNode

\* [val |-> the list returned, err |-> the exception raised or "none"]
normalize(l, imm) ==
    LET merged == merge_and_expand_implications(l)
        unnested == replace_nested_implications(merged)
        boolean == replace_nary(unnested)
    IN  IF \E k \in 1..Len(boolean) : HasError(boolean[k])
          THEN [val |-> <<>>, err |-> "ValueError"]
        ELSE IF simplify_decided(boolean, imm, FALSE)
          THEN [val |-> <<>>, err |-> "TypeError"]
        ELSE [val |-> merge_and_expand_implications(
                          simplify_members(boolean, imm, TRUE)),
              err |-> "none"]

(***************************************************************************)
(* to_impl.py: the normalized form as a list of implications, each of a    *)
(* list of literals and one literal.  The operators below are for the      *)
(* normalized form of a validated constraint, on which the assertions of   *)
(* Implication(strict, stricter) hold.                                     *)
(***************************************************************************)
\* the members of l that are in no list of seen, each once (by value)
RECURSIVE Dedup(_, _)
Dedup(l, seen) ==
    IF l = <<>> THEN <<>>
    ELSE IF InList(Head(l), seen) THEN Dedup(Tail(l), seen)
    ELSE <<Head(l)>> \o Dedup(Tail(l), seen \o <<Head(l)>>)

\* Implication(condition, constraint, strict=True, stricter=True)
ImplicationStricter(condition, constraint) ==
    LET ncons == Dedup(constraint, condition)
        nc == Dedup(condition, <<>>)
    IN  IF \E i \in 1..Len(nc) : InList(negated(nc[i]), nc)
          THEN Implication(<<>>, <<>>)
          ELSE Implication(nc, ncons)

RECURSIVE merge(_, _)
merge(cond, cons) ==
    IF IsFlag(cond)
      THEN [k \in 1..Len(cons) |->
               ImplicationStricter(<<cond>> \o cons[k].condition, cons[k].constraint)]
    ELSE IF IsAnyOf(cond)
      THEN LET RECURSIVE each(_)
               each(cs) == IF cs = <<>> THEN <<>>
                           ELSE merge(Head(cs), cons) \o each(Tail(cs))
           IN  merge_and_expand_implications(each(cond.constraint))
    ELSE IF cond.constraint = <<>> THEN cons
    ELSE merge_and_expand_implications(
             merge(Head(cond.constraint),
                   merge(AllOfOperator(Tail(cond.constraint)), cons)))

RECURSIVE to_implication(_)
RECURSIVE to_implications(_)

\* r = []; for e in l: r += to_implication(e)
to_implications(l) ==
    IF l = <<>> THEN <<>>
    ELSE to_implication(Head(l)) \o to_implications(Tail(l))

to_implication(expr) ==
    IF IsFlag(expr) THEN <<ImplicationStricter(<<>>, <<expr>>)>>
    ELSE IF expr.type = "impl"
      THEN LET l == to_implications(expr.constraint) IN
           [k \in 1..Len(l) |->
               ImplicationStricter(expr.condition \o l[k].condition, l[k].constraint)]
    ELSE IF IsAnyOf(expr)
      THEN LET f == Head(expr.constraint)
               rest == Tail(expr.constraint)
           IN  IF rest # <<>>
                 THEN merge_and_expand_implications(
                          merge(negate(AnyOfOperator(rest)), to_implication(f)))
                 ELSE merge_and_expand_implications(to_implication(f))
    ELSE merge_and_expand_implications(to_implications(expr.constraint))

(***************************************************************************)
(* solve.py: combine_common_prefixes.                                      *)
(* [val |-> the list returned, err |-> the exception raised or "none"]     *)
(***************************************************************************)
add_subcond(impl) ==
    IF Len(impl.condition) > 1
      THEN <<Implication(Tail(impl.condition), impl.constraint)>>
      ELSE impl.constraint

\* assert(x.condition), for the x that follows an implication
assert_condition(x) ==
    IF x.type # "impl" THEN "AttributeError"
    ELSE IF x.condition = <<>> THEN "AssertionError"
    ELSE "none"

\* the inner while loop: the implications that follow and start with the
\* object first.  [taken |-> their sub-conditions, left |-> the rest, err]
RECURSIVE merge_on_first(_, _)
merge_on_first(first, l) ==
    IF l = <<>> THEN [taken |-> <<>>, left |-> <<>>, err |-> "none"]
    ELSE IF assert_condition(Head(l)) # "none"
      THEN [taken |-> <<>>, left |-> l, err |-> assert_condition(Head(l))]
    ELSE IF Head(l).condition[1].id # first.id
      THEN [taken |-> <<>>, left |-> l, err |-> "none"]
    ELSE LET r == merge_on_first(first, Tail(l)) IN
         [r EXCEPT !.taken = add_subcond(Head(l)) \o @]

RECURSIVE combine_common_prefixes(_)
combine_common_prefixes(l) ==
    IF l = <<>> THEN [val |-> <<>>, err |-> "none"]
    ELSE LET first == Head(l)
             rest == Tail(l)
             after == combine_common_prefixes(rest)
             run == merge_on_first(first.condition[1], rest)
             sub == combine_common_prefixes(add_subcond(first) \o run.taken)
             left == combine_common_prefixes(run.left)
         IN  IF IsFlag(first) THEN [after EXCEPT !.val = <<first>> \o @]
             ELSE IF first.type # "impl" \/ first.condition = <<>>
               THEN [val |-> <<>>, err |-> "AssertionError"]
             ELSE IF rest = <<>> THEN [val |-> <<first>>, err |-> "none"]
             ELSE IF assert_condition(Head(rest)) # "none"
               THEN [val |-> <<>>, err |-> assert_condition(Head(rest))]
             ELSE IF Head(rest).condition[1].id # first.condition[1].id
               THEN [after EXCEPT !.val = <<first>> \o @]
             ELSE IF run.err # "none" THEN [val |-> <<>>, err |-> run.err]
             ELSE IF sub.err # "none" THEN [val |-> <<>>, err |-> sub.err]
             ELSE [left EXCEPT
                      !.val = <<Implication(<<first.condition[1]>>, sub.val)>> \o @]

\* the object expr as to_implication(expr) leaves it: the first member of an
\* AnyOf is popped off its list (f = expr.constraint.pop(0)), the members
\* of an implication body and of an AllOf are converted in their turn
RECURSIVE after_to_implication(_)
after_to_implication(expr) ==
    IF IsFlag(expr) THEN expr
    ELSE IF IsAnyOf(expr)
      THEN (IF expr.constraint = <<>> THEN expr
            ELSE [expr EXCEPT !.constraint = Tail(@)])
    ELSE IF expr.type = "impl" \/ IsAllOf(expr)
      THEN [expr EXCEPT
              !.constraint = [k \in 1..Len(@) |-> after_to_implication(@[k])]]
    ELSE expr

\* convert_to_implications(constraint_str, immutable_str): the normalized
\* constraint, each expression of it as implications
convert_to_implications(l, imm) ==
    LET n == normalize(l, imm) IN
    IF n.err # "none" THEN n
    ELSE [val |-> to_implications(n.val), err |-> "none"]

\* do_solving as one call: the loop from flags with the assignments seen.
\* [flags |-> the assignment returned or left, err |-> the exception or "none"]
RECURSIVE do_solving(_, _, _, _)
do_solving(flags, seen, l, imm) ==
    CHOOSE ret \in
        {IF r.err # "none" THEN r
         ELSE IF validate_constraint(r.flags, l) THEN r
         ELSE IF \E k \in 1..Len(seen) : seen[k] = r.flags
           THEN [flags |-> r.flags, err |-> "InfiniteLoopError"]
         ELSE do_solving(r.flags, Append(seen, r.flags), l, imm)
           : r \in {apply_solving(flags, l, imm, FALSE)}} : TRUE

(***************************************************************************)
(* nsolve.py: main lists the pairs of flattened implications of which the  *)
(* later can break the earlier (Implication.can_break of parser.py).  The  *)
(* operators below are for constraints made of implications whose body is  *)
(* a list of literals: flatten_implications gives one implication for each *)
(* literal of a body.                                                      *)
(***************************************************************************)
RECURSIVE flatten_implications(_)
flatten_implications(l) ==
    IF l = <<>> THEN <<>>
    ELSE [i \in 1..Len(Head(l).constraint) |->
             Implication(Head(l).condition, <<Head(l).constraint[i]>>)]
         \o flatten_implications(Tail(l))

\* step 4 of can_break: the loop over the members of self.constraint
RECURSIVE can_break_4(_, _, _)
can_break_4(rs, self, other) ==
    IF rs = <<>> THEN FALSE
    ELSE LET r1 == Head(rs) IN
         IF InList(negated(r1), other.constraint) THEN TRUE
         ELSE IF InList(r1, other.condition)
           THEN ~\A k \in 1..Len(other.constraint) :
                    \/ InList(other.constraint[k], self.condition)
                    \/ InList(other.constraint[k], self.constraint)
           ELSE can_break_4(Tail(rs), self, other)

can_break(self, other) ==
    IF \E i \in 1..Len(self.condition) :
           InList(negated(self.condition[i]), other.condition)
      THEN FALSE
    ELSE IF \E i \in 1..Len(self.condition) :
           InList(negated(self.condition[i]), other.constraint)
      THEN FALSE
    ELSE IF \E i \in 1..Len(self.constraint) :
           InList(negated(self.constraint[i]), other.condition)
      THEN FALSE
    ELSE can_break_4(self.constraint, self, other)

\* the pairs <<j, i>> that nsolve.main prints as "[j] can break [i]"
nsolve_main(l) ==
    LET flat == flatten_implications(l) IN
    {<<j, i>> \in (1..Len(flat)) \X (1..Len(flat)) :
        i < j /\ can_break(flat[j], flat[i])}

(***************************************************************************)
(* The programs.  verify2.main: parse, validate, sort, flatten, then the   *)
(* four checks in turn; pc names the stage reached and error the exception *)
(* that ended main ("none" while it runs).  solve.print_solutions: the     *)
(* solver on the sorted constraint, from an input of its choice.           *)
(***************************************************************************)
NoFlags == [n \in {} |-> TRUE]

\* (a long constraint is taken without immutables)
ImmutableMaps(l) ==
    IF IsLong(l) THEN {NoFlags}
    ELSE UNION {[S -> BOOLEAN] : S \in SUBSET all_flags(l)}

\* not computed yet
Pending == [val |-> <<>>, err |-> "pending"]

NotRun == [flags |-> NoFlags, err |-> "pending"]

\* the state after list(parse_string(constraint_str)): every token consumed
Init ==
    /\ tokens = <<>>
    /\ ast \in Constraints
    /\ immutables \in ImmutableMaps(ast)
    /\ pc = "parsed"
    /\ sorted = <<>>
    /\ flats = <<>>
    /\ error = "none"
    /\ solver = "idle"
    /\ inp_flags = NoFlags
    /\ out_flags = NoFlags
    /\ prev_states = <<>>
    /\ normalized = Pending
    /\ impl_ast = Pending
    /\ ret_impl = NotRun

Running(stage) == pc = stage /\ error = "none"

\* the state before list(parse_string(constraint_str))
ParseInit ==
    /\ tokens \in TokenLists
    /\ ast = <<>>
    /\ immutables = NoFlags
    /\ pc = "string"
    /\ sorted = <<>>
    /\ flats = <<>>
    /\ error = "none"
    /\ solver = "idle"
    /\ inp_flags = NoFlags
    /\ out_flags = NoFlags
    /\ prev_states = <<>>
    /\ normalized = Pending
    /\ impl_ast = Pending
    /\ ret_impl = NotRun

\* list(parse_string(constraint_str))
ParseString ==
    /\ Running("string")
    /\ LET r == parse_tokens(tokens, FALSE, 1) IN
       /\ tokens' = r.rest
       /\ ast' = r.val
       /\ error' = r.err
       /\ pc' = IF r.err = "none" THEN "parsed" ELSE pc
    /\ UNCHANGED <<immutables, sorted, flats,
                   solver, inp_flags, out_flags, prev_states,
                   implication_variant>>

Raise(e) == error' = e /\ pc' = pc

Validate ==
    /\ Running("parsed")
    /\ LET r == validate_ast_passthrough(ast) IN
       IF r.err = "none" THEN pc' = "validated" /\ error' = error
       ELSE Raise(r.err)
    /\ UNCHANGED <<tokens, ast, immutables, sorted, flats,
                   solver, inp_flags, out_flags, prev_states,
                   implication_variant>>

Sort ==
    /\ Running("validated")
    /\ sorted' = sort_nary(ast, immutables)
    /\ pc' = "sorted"
    /\ UNCHANGED <<tokens, ast, immutables, flats, error,
                   solver, inp_flags, out_flags, prev_states,
                   implication_variant>>

Flatten ==
    /\ Running("sorted")
    /\ LET r == flatten3(sorted, <<>>) IN
       IF r.err = "none"
         THEN flats' = r.paths /\ pc' = "flat" /\ error' = error
         ELSE flats' = flats /\ Raise(r.err)
    /\ UNCHANGED <<tokens, ast, immutables, sorted,
                   solver, inp_flags, out_flags, prev_states,
                   implication_variant>>

\* one check of main: on "ok" go to the next stage, else raise
Check(stage, result, next) ==
    /\ Running(stage)
    /\ IF result = "ok" THEN pc' = next /\ error' = error ELSE Raise(result)
    /\ UNCHANGED <<tokens, ast, immutables, sorted, flats,
                   solver, inp_flags, out_flags, prev_states,
                   implication_variant>>

VerifySelfConflicting ==
    Check("flat", verify_self_conflicting(flats), "self_conflicting_ok")

\* a main that runs the conflict check in the place of the immutability check
VerifyImmutability_ConflictsFirst ==
    Check("self_conflicting_ok", verify_conflicts(flats), "immutability_ok")

VerifyImmutability ==
    Check("self_conflicting_ok", verify_immutability(flats, immutables),
          "immutability_ok")

VerifyConflicts ==
    Check("immutability_ok", verify_conflicts(flats), "conflicts_ok")

VerifyBackAlteration ==
    Check("conflicts_ok", verify_back_alteration(flats), "back_alteration_ok")

\* main has ended after the sort: with every check passed, or by an exception
MainEnded ==
    \/ pc = "back_alteration_ok"
    \/ error # "none" /\ pc # "parsed"

\* print_solutions: impl_ast = combine_common_prefixes(
\* convert_to_implications(constraint_str, immutable_str))
ImplicationVariant ==
    /\ MainEnded
    /\ normalized = Pending
    /\ normalized' = normalize(ast, immutables)
    /\ impl_ast' = LET r == convert_to_implications(ast, immutables) IN
                   IF r.err # "none" THEN r
                   ELSE combine_common_prefixes(r.val)
    /\ UNCHANGED <<tokens, ast, immutables, pc, sorted, flats, error,
                   solver, inp_flags, out_flags, prev_states, ret_impl>>

\* do_solving, up to the loop (also when the implication variant raised,
\* as a call of do_solving on its own)
StartSolving ==
    /\ MainEnded
    /\ normalized # Pending
    /\ solver = "idle"
    /\ inp_flags' \in Inputs(sorted, immutables)
    /\ out_flags' = inp_flags'
    /\ prev_states' = <<inp_flags'>>
    /\ solver' = "running"
    /\ UNCHANGED <<tokens, ast, immutables, pc, sorted, flats, error,
                   implication_variant>>

\* a loop that returns after a pass without validating the assignment
SolvingPass_NoValidation ==
    /\ solver = "running"
    /\ LET r == apply_solving(out_flags, sorted, immutables, FALSE) IN
       /\ out_flags' = r.flags
       /\ solver' = IF r.err # "none" THEN r.err ELSE "returned"
    /\ UNCHANGED <<tokens, ast, immutables, pc, sorted, flats, error, inp_flags,
                   prev_states, implication_variant>>

\* a loop that looks for a repeated assignment before it validates
SolvingPass_LoopCheckFirst ==
    /\ solver = "running"
    /\ LET r == apply_solving(out_flags, sorted, immutables, FALSE) IN
       /\ out_flags' = r.flags
       /\ IF r.err # "none"
            THEN solver' = r.err /\ prev_states' = prev_states
          ELSE IF \E k \in 1..Len(prev_states) : prev_states[k] = out_flags'
            THEN solver' = "InfiniteLoopError" /\ prev_states' = prev_states
          ELSE IF validate_constraint(out_flags', sorted)
            THEN solver' = "returned" /\ prev_states' = prev_states
          ELSE solver' = solver /\ prev_states' = Append(prev_states, out_flags')
    /\ UNCHANGED <<tokens, ast, immutables, pc, sorted, flats, error, inp_flags,
                   implication_variant>>

\* one iteration of the loop of do_solving
SolvingPass ==
    /\ solver = "running"
    /\ LET r == apply_solving(out_flags, sorted, immutables, FALSE) IN
       /\ out_flags' = r.flags
       /\ IF r.err # "none"
            THEN solver' = r.err /\ prev_states' = prev_states
          ELSE IF validate_constraint(out_flags', sorted)
            THEN solver' = "returned" /\ prev_states' = prev_states
          ELSE IF \E k \in 1..Len(prev_states) : prev_states[k] = out_flags'
            THEN solver' = "InfiniteLoopError" /\ prev_states' = prev_states
          ELSE solver' = solver /\ prev_states' = Append(prev_states, out_flags')
    /\ UNCHANGED <<tokens, ast, immutables, pc, sorted, flats, error, inp_flags,
                   implication_variant>>

\* print_solutions: ret_impl = do_solving(sorted_flags, inp_flags, impl_ast,
\* immutable_flags), once do_solving on the sorted constraint has returned
SolveImplications ==
    /\ solver = "returned"
    /\ impl_ast.err = "none"
    /\ ret_impl = NotRun
    /\ ret_impl' = do_solving(inp_flags, <<inp_flags>>, impl_ast.val, immutables)
    /\ UNCHANGED <<tokens, ast, immutables, pc, sorted, flats, error,
                   solver, inp_flags, out_flags, prev_states,
                   normalized, impl_ast>>

Next ==
    \/ Validate
    \/ Sort
    \/ Flatten
    \/ VerifySelfConflicting
    \/ VerifyImmutability
    \/ VerifyConflicts
    \/ VerifyBackAlteration
    \/ ImplicationVariant
    \/ StartSolving
    \/ SolvingPass
    \/ SolveImplications

Spec == Init /\ [][Next]_vars

\* the expressions the validator is tried on: those of the grammar and
\* those it refuses, at the top level and inside implications
ValidatorExprs ==
    LET a == Flag("a", TRUE, 1)
        b == Flag("b", FALSE, 2)
        c == Flag("c", TRUE, 3)
        any == NaryOperator("||", <<b, c>>)
        all == NaryOperator("&&", <<b, c>>)
        use == Implication(<<b>>, <<c>>)
    IN  {a, use, any, all,
         NaryOperator("??", <<>>),
         NaryOperator("^^", <<b, all>>),
         NaryOperator("??", <<any, c>>),
         NaryOperator("||", <<b, use>>),
         Implication(<<a>>, <<b, any>>),
         Implication(<<a>>, <<b, all>>),
         Implication(<<a>>, <<NaryOperator("||", <<use>>)>>),
         Implication(<<a>>, <<Implication(<<b>>, <<c, all>>)>>),
         Implication(<<a>>, <<Implication(<<b>>, <<c, any>>)>>),
         Implication(<<a, b>>, <<c>>),
         Implication(<<>>, <<c>>),
         Implication(<<any>>, <<c>>),
         Implication(<<a>>, <<Implication(<<b, b>>, <<c>>)>>)}

ValidatorInputs == UNION {[1..n -> ValidatorExprs] : n \in 0..MaxExprs}

\* the validator alone, from a list of expressions built by hand
ValidateInit ==
    /\ tokens = <<>>
    /\ ast \in ValidatorInputs
    /\ immutables = NoFlags
    /\ pc = "parsed"
    /\ sorted = <<>>
    /\ flats = <<>>
    /\ error = "none"
    /\ solver = "idle"
    /\ inp_flags = NoFlags
    /\ out_flags = NoFlags
    /\ prev_states = <<>>
    /\ normalized = Pending
    /\ impl_ast = Pending
    /\ ret_impl = NotRun

ValidateNext == Validate

ValidateSpec == ValidateInit /\ [][ValidateNext]_vars

\* the parser alone, from the strings of the model
ParseNext == ParseString

ParseSpec == ParseInit /\ [][ParseNext]_vars

(***************************************************************************)
(* Properties.                                                             *)
(***************************************************************************)
\* main has just built the path list (sorted and flats stay as they are in
\* every later state)
Flattened == Running("flat") /\ solver = "idle" /\ normalized = Pending

Assignments == [all_flags(sorted) -> BOOLEAN]

\* C1: single-pass soundness of the static verifier.  When the four checks
\* of verify2.main have passed, the first iteration of do_solving, from
\* whatever input that agrees with the immutables, raises nothing and ends
\* with a valid assignment: do_solving returns in its first iteration.
C1_SinglePassSound ==
    (pc = "back_alteration_ok" /\ solver # "idle")
        => /\ solver \in {"running", "returned"}
           /\ Len(prev_states) = 1

\* the truth of an effect under an assignment; an effect that is a list of
\* literals holds when each of them holds
LitTrue(f, flags) == flags[f.name] = f.enabled

EffectTrue(e, flags) ==
    IF IsFlag(e) THEN LitTrue(e, flags)
    ELSE \A i \in 1..Len(e.items) : LitTrue(e.items[i], flags)

PathHolds(p, flags) ==
    \/ \E i \in 1..Len(p.c) : ~LitTrue(p.c[i], flags)
    \/ EffectTrue(p.e, flags)

C3_EffectIsLiteral ==
    Flattened =>
        \A k \in 1..Len(flats) :
            /\ IsFlag(flats[k].e)
            /\ \A i \in 1..Len(flats[k].c) : IsFlag(flats[k].c[i])

\* the reference lowering of C4, literals by value
RefAnyOf(K, xs) ==
    <<[c |-> K \o [i \in 1..(Len(xs) - 1) |-> Lit(negated(xs[i + 1]))],
       e |-> Lit(xs[1])]>>

RECURSIVE RefPairs(_, _, _, _)
RefPairs(K, xs, i, j) ==
    IF i >= Len(xs) THEN <<>>
    ELSE IF j > Len(xs) THEN RefPairs(K, xs, i + 1, i + 2)
    ELSE <<[c |-> K \o <<Lit(xs[i])>>, e |-> Lit(negated(xs[j]))]>>
         \o RefPairs(K, xs, i, j + 1)

RECURSIVE RefLower(_, _)
RefLowerExpr(expr, K) ==
    IF IsFlag(expr) THEN <<[c |-> K, e |-> Lit(expr)]>>
    ELSE IF expr.type = "impl"
      THEN RefLower(expr.constraint,
                    K \o [i \in 1..Len(expr.condition) |-> Lit(expr.condition[i])])
    ELSE IF expr.op = "||" THEN RefAnyOf(K, expr.constraint)
    ELSE IF expr.op = "??" THEN RefPairs(K, expr.constraint, 1, 2)
    ELSE RefAnyOf(K, expr.constraint) \o RefPairs(K, expr.constraint, 1, 2)

RefLower(l, K) ==
    IF l = <<>> THEN <<>> ELSE RefLowerExpr(Head(l), K) \o RefLower(Tail(l), K)

\* a path by value: its effect is a literal or a list of literals
PathValue(p) ==
    [c |-> [i \in 1..Len(p.c) |-> Lit(p.c[i])],
     e |-> IF IsFlag(p.e) THEN Lit(p.e)
           ELSE [type |-> "list",
                 items |-> [i \in 1..Len(p.e.items) |-> Lit(p.e.items[i])]]]

\* C4: flatten3 equals the reference lowering, path for path and in order.
C4_FlattenIsReference ==
    Flattened =>
        [k \in 1..Len(flats) |-> PathValue(flats[k])] = RefLower(sorted, <<>>)

\* what the immutables say of a literal
Forced(f, imm) == f.name \in DOMAIN imm /\ imm[f.name] = f.enabled
Masked(f, imm) == f.name \in DOMAIN imm /\ imm[f.name] # f.enabled

\* no condition of the path is contradicted by the immutables, and its
\* effect (each literal of it) is
AltersImmutable(p, imm) ==
    /\ \A i \in 1..Len(p.c) : ~Masked(p.c[i], imm)
    /\ IF IsFlag(p.e) THEN Masked(p.e, imm)
       ELSE \E i \in 1..Len(p.e.items) : Masked(p.e.items[i], imm)

\* C5: verify_immutability raises ImmutabilityVerifyError if and only if
\* some path whose conditions the immutables do not contradict has an
\* effect that the immutables contradict.
C5_ImmutabilityIff ==
    Flattened =>
        (verify_immutability(flats, immutables) = "ImmutabilityVerifyError"
            <=> \E k \in 1..Len(flats) : AltersImmutable(flats[k], immutables))

\* the key of C6: 0 forced, 1 free, 2 masked
ClaimKey(f, imm) ==
    IF Forced(f, imm) THEN 0 ELSE IF Masked(f, imm) THEN 2 ELSE 1

RECURSIVE RefSort(_, _)
RefSortExpr(expr, imm) ==
    IF IsFlag(expr) THEN expr
    ELSE IF expr.type = "impl"
      THEN Implication(expr.condition, RefSort(expr.constraint, imm))
    ELSE IF expr.op = "&&" THEN expr
    ELSE LET cs == RefSort(expr.constraint, imm) IN
         NaryOperator(expr.op,
             SelectSeq(cs, LAMBDA x : ClaimKey(x, imm) = 0)
             \o SelectSeq(cs, LAMBDA x : ClaimKey(x, imm) = 1)
             \o SelectSeq(cs, LAMBDA x : ClaimKey(x, imm) = 2))

RefSort(l, imm) == [i \in 1..Len(l) |-> RefSortExpr(l[i], imm)]

\* C6: sort_nary with the immutability key stably sorts the children of
\* every ||, ?? and ^^ group, forced literals first and masked literals last.
C6_SortByImmutabilityKey ==
    pc \notin {"parsed", "validated"} => sorted = RefSort(ast, immutables)

\* the constraint is one group of literals with at least one member
SingleGroup(op) ==
    /\ Len(ast) = 1
    /\ IsNary(ast[1])
    /\ ast[1].op = op
    /\ Len(ast[1].constraint) >= 1

Members == ast[1].constraint

\* C7: sorting makes the lowering immutability-safe.  The sorted flattening
\* of one || group with a member the immutables do not mask, and of one ??
\* group with at most one member they force, passes verify_immutability.
C7_SortedLoweringSafe ==
    /\ (Flattened /\ SingleGroup("||")
        /\ \E i \in 1..Len(Members) : ~Masked(Members[i], immutables))
           => verify_immutability(flats, immutables) = "ok"
    /\ (Flattened /\ SingleGroup("??")
        /\ Cardinality({i \in 1..Len(Members) : Forced(Members[i], immutables)}) <= 1)
           => verify_immutability(flats, immutables) = "ok"

\* paths i < j of C8: the later effect is in the earlier suffix, the
\* suffixes can coexist and the earlier effect is not in the later suffix
BackAlters(fl, i, j) ==
    LET s == split_common_prefix(fl[i].c, fl[j].c) IN
    /\ IsFlag(fl[j].e) /\ InList(fl[j].e, s.c1)
    /\ conditions_can_coexist(s.c1, s.c2)
    /\ ~(IsFlag(fl[i].e) /\ InList(fl[i].e, s.c2))

\* C8: verify_back_alteration raises BackAlterationVerifyError if and only
\* if some paths i < j are as in BackAlters.
C8_BackAlterationIff ==
    Flattened =>
        (verify_back_alteration(flats) = "BackAlterationVerifyError"
            <=> \E i, j \in 1..Len(flats) : i < j /\ BackAlters(flats, i, j))

\* the constraint  x? ( !y ) y? ( x )  for two flags x and y, with no
\* immutables:  a? ( !b ) b? ( a )
IsC9Constraint ==
    /\ immutables = NoFlags
    /\ Len(ast) = 2
    /\ \A k \in 1..2 :
          /\ ast[k].type = "impl"
          /\ Len(ast[k].constraint) = 1
          /\ IsFlag(ast[k].constraint[1])
    /\ ast[1].condition[1].enabled /\ ~ast[1].constraint[1].enabled
    /\ ast[2].condition[1].enabled /\ ast[2].constraint[1].enabled
    /\ ast[1].condition[1].name = ast[2].constraint[1].name
    /\ ast[1].constraint[1].name = ast[2].condition[1].name
    /\ ast[1].condition[1].name # ast[2].condition[1].name

\* main has come to its end: by the last check passing, or by an exception
MainDone == pc = "back_alteration_ok" \/ error # "none"

\* C9 as stated: a? ( !b ) b? ( a ) is accepted by the back-alteration
\* analysis, no back-alteration error is reported for its paths.
C9_Accepted ==
    (IsC9Constraint /\ MainDone) => error = "none"

\* C9 as amended: for a? ( !b ) b? ( a ) the circular exception of
\* verify_back_alteration does not apply, main passes the first three checks
\* and ends in BackAlterationVerifyError; it is the pairwise can_break
\* analysis of nsolve.main that finds no pair of which one breaks the other.
C9_Rejected ==
    (IsC9Constraint /\ MainDone)
        => /\ pc = "conflicts_ok"
           /\ error = "BackAlterationVerifyError"
           /\ nsolve_main(ast) = {}

\* C9 witness: main has ended on a? ( !b ) b? ( a )
C9_Witness == IsC9Constraint /\ MainDone

\* C10: the circular exception applies only when the earlier effect itself,
\* with its polarity, is in the later condition suffix.  For two paths of
\* which the later effect is in the earlier suffix and the suffixes can
\* coexist, verify_back_alteration passes exactly when the earlier effect is
\* a member (by name and polarity) of the later suffix:  a? ( b ) b? ( a )
\* and  !b? ( a ) a? ( !b )  pass,  a? ( !b ) b? ( a )  raises.
TwoPaths ==
    /\ Flattened
    /\ Len(flats) = 2
    /\ IsFlag(flats[1].e) /\ IsFlag(flats[2].e)

Suffixes == split_common_prefix(flats[1].c, flats[2].c)

C10_CircularException ==
    (TwoPaths /\ InList(flats[2].e, Suffixes.c1)
              /\ conditions_can_coexist(Suffixes.c1, Suffixes.c2))
        => IF \E k \in 1..Len(Suffixes.c2) :
                 /\ Suffixes.c2[k].name = flats[1].e.name
                 /\ Suffixes.c2[k].enabled = flats[1].e.enabled
             THEN verify_back_alteration(flats) = "ok"
             ELSE verify_back_alteration(flats) = "BackAlterationVerifyError"

\* C10 witness: two paths like those of a? ( !b ) b? ( a ): the later effect
\* is the earlier condition and the later condition is the negation of the
\* earlier effect
C10_Witness ==
    /\ TwoPaths
    /\ Len(flats[1].c) = 1 /\ Len(flats[2].c) = 1
    /\ FlagEq(flats[2].e, flats[1].c[1])
    /\ FlagEq(flats[2].c[1], negated(flats[1].e))
    /\ flats[1].e.name # flats[1].c[1].name

\* paths i < j of C11: opposite effects, conditions that can coexist, and
\* both conditions can occur after the paths before them
Conflicts(fl, i, j) ==
    LET common_conds == LitSet(fl[i].c) \cup LitSet(fl[j].c) IN
    /\ IsFlag(fl[i].e) /\ IsFlag(fl[j].e)
    /\ FlagEq(fl[i].e, negated(fl[j].e))
    /\ conditions_can_coexist(fl[i].c, fl[j].c)
    /\ condition_can_occur(fl[i].c, SubSeq(fl, 1, i - 1), common_conds).val
    /\ condition_can_occur(fl[j].c, SubSeq(fl, 1, j - 1), common_conds).val

\* C11: verify_conflicts raises ConflictVerifyError if and only if some
\* paths i < j are as in Conflicts.
C11_ConflictIff ==
    Flattened =>
        (verify_conflicts(flats) = "ConflictVerifyError"
            <=> \E i, j \in 1..Len(flats) : i < j /\ Conflicts(flats, i, j))

\* a condition list that holds a literal and its negation
HasBothPolarities(c) ==
    \E i, j \in 1..Len(c) : c[i].name = c[j].name /\ c[i].enabled # c[j].enabled

\* the path list with every effect replaced by the one literal a
WithoutEffects(fl) == [k \in 1..Len(fl) |-> Path(fl[k].c, Flag("a", TRUE, 0))]

\* C12: verify_self_conflicting raises SelfConflictingVerifyError if and only
\* if the condition list of some path holds a literal and its negation;
\* repeated equal literals are no conflict, and the result does not depend
\* on the effects of the paths.
C12_SelfConflictIff ==
    Flattened =>
        /\ verify_self_conflicting(flats) = "SelfConflictingVerifyError"
             <=> \E k \in 1..Len(flats) : HasBothPolarities(flats[k].c)
        /\ verify_self_conflicting(flats) \in {"ok", "SelfConflictingVerifyError"}
        /\ verify_self_conflicting(WithoutEffects(flats))
             = verify_self_conflicting(flats)

\* C12 witness: main has raised SelfConflictingVerifyError on a path whose
\* condition list is like that of  a? ( !a? ( b ) )
C12_Witness ==
    /\ pc = "flat" /\ error = "SelfConflictingVerifyError"
    /\ \E k \in 1..Len(flats) :
          Len(flats[k].c) = 2 /\ FlagEq(flats[k].c[2], negated(flats[k].c[1]))

\* the outcome of verify2.main on a path list: the exception of the first of
\* the four checks, in their order, that raises, and "none" if none does
FirstFailure(fl, imm) ==
    IF verify_self_conflicting(fl) # "ok" THEN verify_self_conflicting(fl)
    ELSE IF verify_immutability(fl, imm) # "ok" THEN verify_immutability(fl, imm)
    ELSE IF verify_conflicts(fl) # "ok" THEN verify_conflicts(fl)
    ELSE IF verify_back_alteration(fl) # "ok" THEN verify_back_alteration(fl)
    ELSE "none"

\* the checks that have passed when main is at pc, in their order
ChecksPassed ==
    <<pc \in {"self_conflicting_ok", "immutability_ok", "conflicts_ok",
              "back_alteration_ok"},
      pc \in {"immutability_ok", "conflicts_ok", "back_alteration_ok"},
      pc \in {"conflicts_ok", "back_alteration_ok"},
      pc = "back_alteration_ok">>

\* main has built the path list, now or before
PathsBuilt == pc \notin {"string", "parsed", "validated", "sorted"}

ChecksInOrder ==
    PathsBuilt =>
        /\ flats = flatten3(sort_nary(ast, immutables), <<>>).paths
        /\ ChecksPassed[1] => verify_self_conflicting(flats) = "ok"
        /\ ChecksPassed[2] => verify_immutability(flats, immutables) = "ok"
        /\ ChecksPassed[3] => verify_conflicts(flats) = "ok"
        /\ ChecksPassed[4] => verify_back_alteration(flats) = "ok"
        /\ (error # "none" \/ pc = "back_alteration_ok")
              => error = FirstFailure(flats, immutables)

\* C13: main runs the checks in the order self-conflict, immutability,
\* conflict, back-alteration on the path list of the sorted, validated
\* constraint; a check runs only when those before it have passed, main ends
\* with the exception of the first check that raises, and once a check has
\* raised no other check runs.
C13_ChecksInOrder ==
    /\ []ChecksInOrder
    /\ [][error # "none" => (pc' = pc /\ error' = error /\ flats' = flats)]_vars

\* C13 witness: main has ended in the self-conflict error on a path list
\* that the immutability check would refuse as well
C13_Witness ==
    /\ pc = "flat" /\ error = "SelfConflictingVerifyError"
    /\ verify_immutability(flats, immutables) = "ImmutabilityVerifyError"

\* the number of apply passes that do_solving has made
Passes ==
    IF solver = "idle" THEN 0
    ELSE IF solver = "running" THEN Len(prev_states) - 1
    ELSE Len(prev_states)

\* C16: do_solving makes at most 1000 apply passes.
C16_AtMost1000Passes == Passes <= 1000

\* C14: whenever do_solving returns, the assignment it returns is an
\* assignment of every flag of the constraint for which validate_constraint
\* holds on the whole constraint.
C14_ReturnsValid ==
    solver = "returned"
        => /\ DOMAIN out_flags = all_flags(sorted)
           /\ validate_constraint(out_flags, sorted)

\* C14 witness: do_solving has returned after more than one pass
C14_Witness == solver = "returned" /\ Len(prev_states) >= 2

\* the assignments that do_solving compares with: the initial one and those
\* left by the earlier passes
SeenBefore(flags) == \E k \in 1..Len(prev_states) : prev_states[k] = flags

LoopStates ==
    /\ solver # "idle" => prev_states[1] = inp_flags
    /\ solver = "InfiniteLoopError"
          => ~validate_constraint(out_flags, sorted) /\ SeenBefore(out_flags)
    /\ solver = "returned" => validate_constraint(out_flags, sorted)
    /\ solver = "running"
          => /\ out_flags = prev_states[Len(prev_states)]
             /\ Len(prev_states) >= 2
                   => /\ ~validate_constraint(out_flags, sorted)
                      /\ \A k \in 1..(Len(prev_states) - 1) :
                             prev_states[k] # out_flags

\* C15: do_solving raises InfiniteLoopError exactly when the assignment
\* after a pass fails validation and is the initial assignment or the
\* assignment after an earlier pass; it never raises it for an assignment
\* that validates.
C15_InfiniteLoopExactly ==
    /\ []LoopStates
    /\ [][solver = "running"
            => /\ out_flags' = apply_solving(out_flags, sorted, immutables,
                                             FALSE).flags
               /\ solver' = "InfiniteLoopError"
                    <=> /\ apply_solving(out_flags, sorted, immutables,
                                         FALSE).err = "none"
                        /\ ~validate_constraint(out_flags', sorted)
                        /\ SeenBefore(out_flags')
               /\ solver' = "running"
                    => prev_states' = Append(prev_states, out_flags')]_vars

\* C15 witness: the first pass changes nothing on an invalid assignment and
\* InfiniteLoopError is raised at once, as for  a !a  from a = false
C15_Witness ==
    /\ solver = "InfiniteLoopError"
    /\ Len(prev_states) = 1
    /\ out_flags = inp_flags

\* an assignment that agrees with the immutables
Agrees(flags) ==
    \A k \in DOMAIN immutables : k \in DOMAIN flags => flags[k] = immutables[k]

\* C17: apply_solving never gives a flag a value that differs from its
\* immutable value (it raises ImmutabilityError and leaves the flag alone):
\* every assignment that do_solving reaches agrees with the immutables, and
\* a pass from whatever assignment changes an immutable flag to its
\* immutable value only.
C17_ImmutablesKept ==
    /\ Agrees(out_flags)
    /\ \A k \in 1..Len(prev_states) : Agrees(prev_states[k])
    /\ (pc = "sorted" /\ ~IsLong(sorted))
          => \A f \in [all_flags(sorted) -> BOOLEAN] :
                LET r == apply_solving(f, sorted, immutables, FALSE) IN
                /\ r.err \in {"none", "ImmutabilityError"}
                /\ \A k \in DOMAIN immutables :
                      k \in DOMAIN f /\ r.flags[k] # f[k]
                         => r.flags[k] = immutables[k]

\* C17 witness: a pass of do_solving has raised ImmutabilityError
C17_Witness ==
    /\ solver = "ImmutabilityError"
    /\ DOMAIN immutables # {}
    /\ Agrees(out_flags)

(***************************************************************************)
(* The normal form of replace_nary.normalize.                              *)
(***************************************************************************)
AllLiterals(l) == \A i \in 1..Len(l) : IsFlag(l[i])

NormalForm(x) ==
    \/ IsFlag(x)
    \/ x.type = "impl" /\ AllLiterals(x.condition) /\ AllLiterals(x.constraint)
    \/ (IsAllOf(x) \/ IsAnyOf(x)) /\ AllLiterals(x.constraint)

\* C19: after normalize of a validated constraint, every expression of the
\* result is a Flag, an Implication whose condition and body are lists of
\* literals, or an AllOf/AnyOf whose children are all literals.
C19_NormalForm ==
    normalized.err = "none"
        => \A i \in 1..Len(normalized.val) : NormalForm(normalized.val[i])

\* C18: when do_solving on the sorted constraint returns an assignment, the
\* implication list is built without an exception and do_solving on it
\* returns the same assignment.
C18_NormalizerEquivalence ==
    solver = "returned"
        => /\ impl_ast.err = "none"
           /\ ret_impl.err \in {"pending", "none"}
           /\ ret_impl.err = "none" => ret_impl.flags = out_flags

(***************************************************************************)
(* The well-formed token sequences.                                        *)
(***************************************************************************)
\* a header: ||, ^^, ?? or NAME?
IsHeader(t) ==
    t \in {AnyOfToken, AtMostOneOfToken, ExactlyOneOfToken} \/ endswith(t, "?")

\* the groups open after the first i tokens of l
RECURSIVE Depth(_, _)
Depth(l, i) ==
    IF i = 0 THEN 0
    ELSE Depth(l, i - 1) + (IF l[i] = LParen THEN 1 ELSE IF l[i] = RParen THEN -1 ELSE 0)

\* the name of a literal or of a condition: the token without a trailing ?
\* and without a leading !
NameIn(t) ==
    LET k == IF endswith(t, "?") THEN SubSeq(t, 1, Len(t) - 1) ELSE t IN
    IF startswith(k, "!") THEN Tail(k) ELSE k

IsNameToken(t) ==
    t \notin {LParen, RParen, AnyOfToken, AtMostOneOfToken, ExactlyOneOfToken}

WellFormed(l) ==
    /\ \A i \in 1..Len(l) : IsHeader(l[i]) => i < Len(l) /\ l[i + 1] = LParen
    /\ \A i \in 1..Len(l) : Depth(l, i) >= 0
    /\ Depth(l, Len(l)) = 0
    /\ \A i \in 1..Len(l) : IsNameToken(l[i]) => flag_re(NameIn(l[i]))

\* the literals and conditions of l written with a leading !
NegativeTokens(l) == {i \in 1..Len(l) : IsNameToken(l[i]) /\ startswith(l[i], "!")}

\* the Flag objects of polarity false of the AST l
NegativeFlags(l) ==
    {i \in 1..Len(get_all_flags(l)) : ~get_all_flags(l)[i].enabled}

\* C20: list(parse_string(s)) raises a ValueError if and only if the token
\* sequence of s is ill-formed; a sequence that parses leaves no token, gives
\* an AllOf for a bare group at its start and a Flag of polarity false for
\* each name written with a leading !, and of polarity true for the others.
C20_ParseErrorIff ==
    [][ParseString =>
          /\ error' # "none" <=> ~WellFormed(tokens)
          /\ error' = "none" =>
                /\ tokens' = <<>>
                /\ Len(get_all_flags(ast')) = Cardinality({i \in 1..Len(tokens) : IsNameToken(tokens[i])})
                /\ Cardinality(NegativeFlags(ast')) = Cardinality(NegativeTokens(tokens))
                /\ (tokens # <<>> /\ Head(tokens) = LParen) => IsAllOf(Head(ast'))
                /\ (tokens # <<>> /\ Head(tokens) = <<"!", "b">>)
                      => Head(ast') = Flag("b", FALSE, 1)]_vars

\* C20 witness: a sequence with a bare group and a negative literal has parsed
C20_Witness ==
    /\ pc = "parsed"
    /\ tokens = <<>>
    /\ \E i \in 1..Len(ast) : IsAllOf(ast[i]) /\ ast[i].constraint # <<>>
    /\ \E i \in 1..Len(ast) : IsFlag(ast[i]) /\ ~ast[i].enabled

(***************************************************************************)
(* The restricted grammar.                                                 *)
(***************************************************************************)
RECURSIVE Conforms(_)
Conforms(x) ==
    IF IsFlag(x) THEN TRUE
    ELSE IF x.type = "impl"
      THEN /\ Len(x.condition) = 1
           /\ IsFlag(x.condition[1])
           /\ \A i \in 1..Len(x.constraint) : Conforms(x.constraint[i])
    ELSE x.op # "&&" /\ \A i \in 1..Len(x.constraint) : IsFlag(x.constraint[i])

\* the expressions of l before its first expression outside the grammar
RECURSIVE ConformingPrefix(_)
ConformingPrefix(l) ==
    IF l = <<>> \/ ~Conforms(Head(l)) THEN <<>>
    ELSE <<Head(l)>> \o ConformingPrefix(Tail(l))

\* C21: validate_ast_passthrough yields, unchanged and in order, the
\* top-level expressions before the first one outside the restricted
\* grammar and raises at that one; it yields a conforming AST completely and
\* raises nothing.
C21_ValidatorPassthrough ==
    [][Validate =>
          LET r == validate_ast_passthrough(ast) IN
          /\ r.yielded = ConformingPrefix(ast)
          /\ r.err = "none" <=> ConformingPrefix(ast) = ast
          /\ error' = r.err
          /\ pc' = "validated" <=> \A i \in 1..Len(ast) : Conforms(ast[i])
          /\ ast' = ast]_vars

\* C21 witness: the validator has raised at an implication that holds an
\* AllOf group two implications deep, after a conforming expression
C21_Witness ==
    /\ pc = "parsed" /\ error = "ValueError"
    /\ Len(ast) = 2
    /\ Conforms(ast[1]) /\ ast[1].type = "impl"
    /\ ast[2].type = "impl" /\ ast[2].constraint[1].type = "impl"
    /\ ~Conforms(ast[2])

\* C22: no pass changes the AST it is given.  replace_nested_implications
\* leaves the validated constraint as it was, and to_implication leaves each
\* expression of the normalized constraint as it was (sort_nary, flatten3,
\* replace_nary, merge_and_expand_implications and simplify_with_immutables
\* assign to no attribute of their input and call no method that changes a
\* list of it).
C22_InputsKept ==
    /\ pc = "validated" => after_replace_nested_implications(ast) = ast
    /\ (normalized.err = "none" /\ solver = "idle")
          => \A i \in 1..Len(normalized.val) :
                after_to_implication(normalized.val[i]) = normalized.val[i]

(***************************************************************************)
(* The simulation of the prior paths.                                      *)
(***************************************************************************)
\* the partial assignments that condition_can_occur is given as flags
PartialAssignments == UNION {[S -> BOOLEAN] : S \in SUBSET all_flags(sorted)}

FlagsOf(f) == {[name |-> n, enabled |-> f[n]] : n \in DOMAIN f}

\* the conditions asked about: each literal, and the condition of each path
Asked ==
    {<<Flag(n, v, 0)>> : n \in all_flags(sorted), v \in BOOLEAN}
    \cup {flats[k].c : k \in 1..Len(flats)}

\* the length of the leading run of c whose nodes are those of the path
\* before, in the same places, and are recorded as matched
SharedRun(c, before, matched) ==
    LET m == IF Len(c) < Len(before) THEN Len(c) ELSE Len(before)
        Same(i) == c[i].id = before[i].id /\ c[i].id \in matched
    IN  CHOOSE n \in 0..m :
            /\ \A i \in 1..n : Same(i)
            /\ n < m => ~Same(n + 1)

\* the assignment after the first k paths of fl, from the assignment f
RECURSIVE After(_, _, _)
RECURSIVE Matched(_, _, _)
Tested(fl, k, f) ==
    LET before == IF k = 1 THEN <<>> ELSE fl[k - 1].c
        n == SharedRun(fl[k].c, before, Matched(fl, k - 1, f))
    IN  SubSeq(fl[k].c, n + 1, Len(fl[k].c))

Applies(fl, k, f) ==
    \A i \in 1..Len(Tested(fl, k, f)) :
        LET ci == Tested(fl, k, f)[i] IN
        ci.name \in DOMAIN After(fl, k - 1, f)
            /\ After(fl, k - 1, f)[ci.name] = ci.enabled

Matched(fl, k, f) ==
    IF k = 0 THEN {}
    ELSE Matched(fl, k - 1, f)
           \cup (IF Applies(fl, k, f)
                   THEN {Tested(fl, k, f)[i].id : i \in 1..Len(Tested(fl, k, f))}
                   ELSE {})

After(fl, k, f) ==
    IF k = 0 THEN f
    ELSE IF Applies(fl, k, f)
      THEN (fl[k].e.name :> fl[k].e.enabled) @@ After(fl, k - 1, f)
      ELSE After(fl, k - 1, f)

\* C23: condition_can_occur(C, prev, flags) raises nothing and is true iff,
\* after the prior paths have been simulated in order from flags, no literal
\* of C has a specified opposite value; a prior path applies its effect when
\* each condition literal after its matched shared run is specified and
\* matches.
C23_ConditionCanOccur ==
    (Flattened /\ ~IsLong(sorted)) =>
        \A f \in PartialAssignments : \A C \in Asked : \A k \in 0..Len(flats) :
            LET r == condition_can_occur(C, SubSeq(flats, 1, k), FlagsOf(f)) IN
            /\ r.err = "none"
            /\ r.val <=> \A i \in 1..Len(C) :
                            C[i].name \in DOMAIN After(flats, k, f)
                                => After(flats, k, f)[C[i].name] = C[i].enabled

\* the effect e is a literal that is a member, by value, of the list c
EffectIn(e, c) == IsFlag(e) /\ InList(e, c)

\* C24: for paths i < j whose later effect ej is a literal,
\* verify_back_alteration passes over the pair when ej is in the earlier
\* condition only inside the prefix shared by identity, and raises
\* BackAlterationVerifyError when ej is in the part of the earlier condition
\* that is not shared (a value-equal literal of another node), the two
\* suffixes can coexist and the earlier effect is not in the later suffix.
C24_PrefixByIdentity ==
    (Flattened /\ ~IsLong(sorted)) =>
        \A i, j \in 1..Len(flats) :
            (i < j /\ IsFlag(flats[j].e)) =>
                LET s == split_common_prefix(flats[i].c, flats[j].c) IN
                /\ ~InList(flats[j].e, s.c1)
                      => back_alteration_pair(flats, i, j) = "none"
                /\ (InList(flats[j].e, s.c1)
                    /\ conditions_can_coexist(s.c1, s.c2)
                    /\ ~EffectIn(flats[i].e, s.c2))
                      => back_alteration_pair(flats, i, j) = "BackAlterationVerifyError"

\* the arguments of split_common_prefix after the call: the pops and the
\* del act on the copies list(c1) and list(c2)
after_split_common_prefix(c1, c2) == [c1 |-> c1, c2 |-> c2]

\* the number of leading positions at which c1 and c2 hold the same node
SharedNodes(c1, c2) ==
    CHOOSE k \in 0..Len(c1) :
        /\ k <= Len(c2)
        /\ \A m \in 1..k : c1[m].id = c2[m].id
        /\ (k < Len(c1) /\ k < Len(c2)) => c1[k + 1].id # c2[k + 1].id

\* C25: for the conditions c1, c2 of any two paths, split_common_prefix
\* returns (p, s1, s2) with p ++ s1 = c1 and p ++ s2 = c2, p is the longest
\* run of leading nodes that are the same object in both (so value-equal
\* literals of different nodes give an empty p), and c1, c2 are unchanged.
C25_SplitCommonPrefix ==
    (Flattened /\ ~IsLong(sorted)) =>
        \A i, j \in 1..Len(flats) :
            LET c1 == flats[i].c
                c2 == flats[j].c
                s  == split_common_prefix(c1, c2) IN
            /\ s.pfx \o s.c1 = c1
            /\ s.pfx \o s.c2 = c2
            /\ Len(s.pfx) = SharedNodes(c1, c2)
            /\ (c1 # <<>> /\ c2 # <<>> /\ c1[1].id # c2[1].id) => s.pfx = <<>>
            /\ after_split_common_prefix(c1, c2) = [c1 |-> c1, c2 |-> c2]

\* C25 witness: two paths whose conditions start with value-equal literals
\* of different nodes, as in a? ( b ) a? ( c ); nothing is shared
C25_Witness ==
    /\ Flattened /\ ~IsLong(sorted)
    /\ \E i, j \in 1..Len(flats) :
          /\ i < j /\ flats[i].c # <<>> /\ flats[j].c # <<>>
          /\ FlagEq(flats[i].c[1], flats[j].c[1])
          /\ flats[i].c[1].id # flats[j].c[1].id
          /\ split_common_prefix(flats[i].c, flats[j].c).pfx = <<>>

\* some literal of the list s1 has the opposite polarity of a literal of s2
Opposed(s1, s2) ==
    \E m \in 1..Len(s1) : \E n \in 1..Len(s2) :
        s1[m].name = s2[n].name /\ s1[m].enabled # s2[n].enabled

\* C26: for the conditions c1, c2 of any two paths, conditions_can_coexist is
\* false exactly when the suffixes left by split_common_prefix hold opposite
\* literals, whichever suffix is looked at first; swapping the arguments
\* gives the same result; an empty list coexists with any list; and a list
\* that contradicts itself does not make the result false unless a literal
\* of its suffix is opposed to one of the other suffix.
C26_ConditionsCanCoexist ==
    (Flattened /\ ~IsLong(sorted)) =>
        \A i, j \in 1..Len(flats) :
            LET c1 == flats[i].c
                c2 == flats[j].c
                s  == split_common_prefix(c1, c2) IN
            /\ conditions_can_coexist(c1, c2) <=> ~Opposed(s.c1, s.c2)
            /\ conditions_can_coexist(c1, c2) <=> ~Opposed(s.c2, s.c1)
            /\ conditions_can_coexist(c1, c2) <=> conditions_can_coexist(c2, c1)
            /\ (c1 = <<>> \/ c2 = <<>>) => conditions_can_coexist(c1, c2)
            /\ (\A m \in 1..Len(s.c1) : \A n \in 1..Len(s.c2) :
                    s.c1[m].name # s.c2[n].name)
                  => conditions_can_coexist(c1, c2)

\* C26 witness: a path whose condition contradicts itself through the prefix
\* it shares with an earlier path, as in a? ( b !a? ( c ) ), coexists with
\* that path
C26_Witness ==
    /\ Flattened /\ ~IsLong(sorted)
    /\ \E i, j \in 1..Len(flats) :
          /\ i < j
          /\ self_conflicting(flats[j])
          /\ split_common_prefix(flats[i].c, flats[j].c).pfx # <<>>
          /\ Opposed(flats[i].c, flats[j].c)
          /\ conditions_can_coexist(flats[i].c, flats[j].c)

(***************************************************************************)
(* The meaning of what simplify_with_immutables returns.                   *)
(***************************************************************************)
\* an expression that simplify_with_immutables takes: no ^^ and no ?? in it
RECURSIVE Simplifiable(_)
Simplifiable(x) ==
    IF IsFlag(x) THEN TRUE
    ELSE IF x.type = "impl"
      THEN \A i \in 1..Len(x.constraint) : Simplifiable(x.constraint[i])
    ELSE /\ IsAllOf(x) \/ IsAnyOf(x)
         /\ \A i \in 1..Len(x.constraint) : Simplifiable(x.constraint[i])

\* the truth value of the result for a list: False, or the list returned
SimplifiedValue(flags, l, imm) ==
    IF simplify_decided(l, imm, FALSE) THEN FALSE
    ELSE validate_constraint(flags, simplify_members(l, imm, TRUE))

\* the flag names left in the result for a list
SimplifiedFlags(l, imm) ==
    IF simplify_decided(l, imm, FALSE) THEN {}
    ELSE all_flags(simplify_members(l, imm, TRUE))

\* C27: for a validated constraint without ^^ and ??, and for every
\* assignment that agrees with the immutables, the result of
\* simplify_with_immutables has the truth value that validate_constraint
\* gives the constraint, and no immutable flag is left in the result.
C27_SimplifyPreservesMeaning ==
    (pc = "validated" /\ ~IsLong(ast)
        /\ \A i \in 1..Len(ast) : Simplifiable(ast[i]))
        => /\ \A f \in Inputs(ast, immutables) :
                  SimplifiedValue(f, ast, immutables) = validate_constraint(f, ast)
           /\ SimplifiedFlags(ast, immutables) \cap DOMAIN immutables = {}

(***************************************************************************)
(* The implications of to_impl.py against the paths of the flattener.      *)
(***************************************************************************)
\* the literals of a list, by value
Lits(c) == [i \in 1..Len(c) |-> Lit(c[i])]

\* the implication m is the conditional assignment of the path p
SameAssignment(m, p) ==
    /\ Lits(m.condition) = Lits(p.c)
    /\ Len(m.constraint) = 1
    /\ IsFlag(p.e)
    /\ FlagEq(m.constraint[1], p.e)

\* C28: for a validated constraint, normalize (without immutables) followed
\* by to_implication on each expression gives, in the order of the paths of
\* the flattener, one implication for each path, with the literals of the
\* condition of the path as its condition and the effect of the path as its
\* only body literal.
C28_ImplicationsAsPaths ==
    (pc = "validated" /\ ~IsLong(ast)) =>
        LET n == normalize(ast, NoFlags)
            r == to_implications(n.val)
            fl == flatten3(ast, <<>>) IN
        /\ n.err = "none"
        /\ fl.err = "none"
        /\ Len(r) = Len(fl.paths)
        /\ \A k \in 1..Len(r) : SameAssignment(r[k], fl.paths[k])

\* C29: a pass of the solver on an assignment that agrees with the
\* immutables and satisfies the constraint changes no flag and raises
\* nothing: for the sorted constraint and each such assignment as a call of
\* apply_solving, and for the first pass of do_solving from such an input.
C29_ValidFixedPoint ==
    /\ (pc = "sorted" /\ ~IsLong(sorted))
          => \A f \in Inputs(sorted, immutables) :
                validate_constraint(f, sorted)
                    => apply_solving(f, sorted, immutables, FALSE)
                          = [flags |-> f, err |-> "none"]
    /\ (solver # "idle" /\ solver # "running"
        /\ validate_constraint(inp_flags, sorted))
          => solver = "returned" /\ out_flags = inp_flags

\* C29 witness: do_solving has returned from an input that was valid, on a
\* constraint with an immutable flag that a top-level literal assigns
C29_Witness ==
    /\ solver = "returned"
    /\ validate_constraint(inp_flags, sorted)
    /\ out_flags = inp_flags
    /\ \E i \in 1..Len(sorted) :
          IsFlag(sorted[i]) /\ sorted[i].name \in DOMAIN immutables

\* verify_conflicts calls condition_can_occur for the paths i < j
CallMade(fl, i, j) ==
    /\ IsFlag(fl[i].e) /\ IsFlag(fl[j].e)
    /\ FlagEq(fl[i].e, negated(fl[j].e))
    /\ conditions_can_coexist(fl[i].c, fl[j].c)

\* C30: when no path of the list has a self-conflicting condition, the set
\* set(c1) | set(c2) that verify_conflicts hands to condition_can_occur holds
\* no flag name with both polarities, and neither a call for a pair nor
\* verify_conflicts as a whole ends in the AssertionError of
\* condition_can_occur; main never ends in it either.
C30_AssertionHolds ==
    /\ error # "AssertionError"
    /\ (Flattened /\ ~IsLong(sorted) /\ verify_self_conflicting(flats) = "ok")
          => /\ verify_conflicts(flats) # "AssertionError"
             /\ \A i, j \in 1..Len(flats) :
                   (i < j /\ CallMade(flats, i, j)) =>
                       LET common_conds == LitSet(flats[i].c) \cup LitSet(flats[j].c) IN
                       /\ \A f, g \in common_conds :
                             f.name = g.name => f.enabled = g.enabled
                       /\ condition_can_occur(flats[i].c, SubSeq(flats, 1, i - 1),
                                              common_conds).err # "AssertionError"
                       /\ condition_can_occur(flats[j].c, SubSeq(flats, 1, j - 1),
                                              common_conds).err # "AssertionError"

\* C30 witness: the call is made for two paths that share a prefix, as those
\* of a? ( b !b ), in a list that has passed verify_self_conflicting
C30_Witness ==
    /\ Flattened /\ ~IsLong(sorted) /\ verify_self_conflicting(flats) = "ok"
    /\ \E i, j \in 1..Len(flats) :
          /\ i < j /\ CallMade(flats, i, j)
          /\ split_common_prefix(flats[i].c, flats[j].c).pfx # <<>>
          /\ conflict_pair(flats, i, j) = "ConflictVerifyError"

====
